---- MODULE Spec2Model ----
(***************************************************************************)
(* Session memory store of the chat assistant backend                      *)
(* (src/core/memory.py, src/schema/definitions.py).                        *)
(*                                                                         *)
(* The store keeps the un-summarized tail of the conversation (history),   *)
(* the running structured summary (summary_output) and the number of       *)
(* messages folded into it (summarized_count), and mirrors them into one   *)
(* JSON document on disk (file).  Every public method is one action; the   *)
(* outcome of each call that leaves the process (the structured model      *)
(* call, the write of the persistence file) is an input of the action.     *)
(***************************************************************************)
EXTENDS Integers, Sequences, FiniteSets, TLC

VARIABLES
    history,           \* MemoryManager.history: sequence of ChatMessage
    summary_output,    \* MemoryManager.summary_output: SummaryOutput or None
    summarized_count,  \* MemoryManager.summarized_count
    file,              \* what is stored at persist_path
    disk_state,        \* the MemoryState whose successful save wrote file, or None
    stale_writes,      \* writes so far that failed before touching the file
    validated,         \* last run of the needed_context_from_memory validator
    understanding,     \* last call of process_query: inputs and what it returned
    added,             \* the messages passed to add_message so far, where a log is kept
    last               \* observation of the last call: inputs, calls made, errors

vars == <<history, summary_output, summarized_count, file, disk_state,
          stale_writes, validated, understanding, added, last>>

----------------------------------------------------------------------------
(* Bounds of the model *)

\* token threshold of the store (constructor parameter), scaled down
token_threshold == 3

\* cap on summarized_count + Len(history), i.e. on the messages of a session
MaxMessages == 4

\* cap on the writes that fail before the file is opened (the old file stays)
MaxStaleWrites == 1

\* longest key list the model proposes
MaxKeys == 2

----------------------------------------------------------------------------
(* Schema: src/schema/definitions.py *)

None == [t |-> "None"]

Roles == {"user", "assistant"}
Contents == {"a", "bbbb"}

ChatMessage(role, content) == [role |-> role, content |-> content]

\* the messages a caller adds
Messages == {ChatMessage("user", "a"), ChatMessage("assistant", "bbbb")}

MessageRange(f, t) == [from_index |-> f, to_index |-> t]

UserProfile(prefs, constraints) == [prefs |-> prefs, constraints |-> constraints]

SessionSummary(up, facts) ==
    [user_profile |-> up, key_facts |-> facts, decisions |-> <<>>,
     open_questions |-> <<>>, todos |-> <<>>]

SummaryOutput(ss, range) ==
    [session_summary |-> ss, message_range_summarized |-> range]

\* the session summaries the model may return
SessionSummaries ==
    {SessionSummary(UserProfile(<<>>, <<>>), <<>>),
     SessionSummary(UserProfile(<<>>, <<"c">>), <<"f">>)}

\* the ranges the model may claim in its answer
ModelRanges == {MessageRange(7, 2)}

\* outcomes of chain.invoke: a SummaryOutput, None, or an exception
LLMOutcomes ==
    {[kind |-> "ok", result |-> SummaryOutput(ss, r)] :
        ss \in SessionSummaries, r \in ModelRanges}
    \cup {[kind |-> "null"], [kind |-> "error"]}

\* outcomes of the file write in save_state
SaveOutcomes == {"ok", "error_before_write", "error_during_write"}

----------------------------------------------------------------------------
(* Persistence document: what json.dump writes and json.load reads *)

NoFile == [kind |-> "missing"]          \* nothing at persist_path
Unreadable == [kind |-> "unreadable"]   \* open() or read() raises OSError
Garbage == [kind |-> "garbage"]         \* text that is not JSON (also a truncated write)
ArrayDoc == [kind |-> "array"]          \* well-formed JSON whose top level is a list

JsonNull == [t |-> "null"]
JsonAbsent == [t |-> "absent"]          \* key not in the object
JsonString == [t |-> "string"]          \* a JSON string where an object or list is expected
JsonNumber == [t |-> "number"]          \* a JSON number where a list is expected
InvalidObject == [t |-> "invalid_object"] \* a JSON object that fails the schema
JsonInt(n) == [t |-> "int", v |-> n]
JsonList(items) == [t |-> "list", items |-> items]

\* ChatMessage.model_dump()
model_dump(m) == [t |-> "object", role |-> m.role, content |-> m.content]

\* variant: by_alias left out, the range goes out under its field names
model_dump_by_alias_FieldNames(so) ==
    [t |-> "object",
     session_summary |-> so.session_summary,
     message_range_summarized |->
        [from_index |-> so.message_range_summarized.from_index,
         to_index |-> so.message_range_summarized.to_index]]

\* SummaryOutput.model_dump(by_alias=True): the range goes out as from/to
model_dump_by_alias(so) ==
    [t |-> "object",
     session_summary |-> so.session_summary,
     message_range_summarized |->
        [from |-> so.message_range_summarized.from_index,
         to |-> so.message_range_summarized.to_index]]

\* [m.model_dump() for m in self.history]
RECURSIVE DumpHistory(_)
DumpHistory(h) ==
    IF h = <<>> THEN <<>> ELSE <<model_dump(Head(h))>> \o DumpHistory(Tail(h))

\* the dict save_state builds
StateDocument(h, so, cnt) ==
    [kind |-> "object",
     history |-> JsonList(DumpHistory(h)),
     summary_output |-> IF so # None THEN model_dump_by_alias(so) ELSE JsonNull,
     summarized_count |-> JsonInt(cnt)]

MemoryState(h, so, cnt) ==
    [history |-> h, summary_output |-> so, summarized_count |-> cnt]

\* variant: a failed write raises to the caller
save_state_Raises(f, d, h, so, cnt, outcome) ==
    CASE outcome = "ok" ->
            [file |-> StateDocument(h, so, cnt),
             disk_state |-> MemoryState(h, so, cnt), raised |-> ""]
      [] outcome = "error_before_write" ->
            [file |-> f, disk_state |-> d, raised |-> "OSError"]
      [] outcome = "error_during_write" ->
            [file |-> Garbage, disk_state |-> None, raised |-> "OSError"]

\* save_state: every exception is caught and logged, none is raised
save_state(f, d, h, so, cnt, outcome) ==
    CASE outcome = "ok" ->
            [file |-> StateDocument(h, so, cnt),
             disk_state |-> MemoryState(h, so, cnt), raised |-> ""]
      [] outcome = "error_before_write" ->
            [file |-> f, disk_state |-> d, raised |-> ""]
      [] outcome = "error_during_write" ->
            [file |-> Garbage, disk_state |-> None, raised |-> ""]

\* variant: the existence check left out
Exists_Unchecked(f) == TRUE

\* os.path.exists(persist_path)
Exists(f) == f.kind # "missing"

\* MessageRange(**d) with populate_by_name: alias or field name
ParseMessageRange(d) ==
    IF "from" \in DOMAIN d
    THEN MessageRange(d.from, d.to)
    ELSE MessageRange(d.from_index, d.to_index)

\* [ChatMessage(**m) for m in ...]: left to right, the first bad entry raises
RECURSIVE ParseItems(_)
ParseItems(items) ==
    IF items = <<>> THEN [status |-> "ok", value |-> <<>>]
    ELSE LET m == Head(items) IN
         IF m.t = "object"
         THEN LET rest == ParseItems(Tail(items)) IN
              IF rest.status = "ok"
              THEN [status |-> "ok",
                    value |-> <<ChatMessage(m.role, m.content)>> \o rest.value]
              ELSE rest
         ELSE IF m.t = "invalid_object"
              THEN [status |-> "ValidationError", value |-> <<>>]
              ELSE [status |-> "TypeError", value |-> <<>>]

\* the list built from state.get("history", [])
ParseHistory(hv) ==
    IF hv.t = "absent" THEN [status |-> "ok", value |-> <<>>]
    ELSE IF hv.t # "list" THEN [status |-> "TypeError", value |-> <<>>]
    ELSE ParseItems(hv.items)

\* truthiness of state.get("summary_output")
Truthy(sv) == sv.t \notin {"null", "absent"}

\* SummaryOutput(**summary_data)
ParseSummaryOutput(sv) ==
    CASE sv.t = "object" ->
            [status |-> "ok",
             value |-> SummaryOutput(sv.session_summary,
                                     ParseMessageRange(sv.message_range_summarized))]
      [] sv.t = "invalid_object" -> [status |-> "ValidationError", value |-> None]
      [] OTHER -> [status |-> "TypeError", value |-> None]

\* state.get("summarized_count", 0)
ParseCount(cv) == IF cv.t = "absent" THEN 0 ELSE cv.v

\* the exceptions load_state catches
Caught(e) == e \in {"JSONDecodeError", "ValidationError"}

LoadResult(h, so, cnt, exc) ==
    [history |-> h, summary_output |-> so, summarized_count |-> cnt,
     raised |-> IF Caught(exc) THEN "" ELSE exc,
     error |-> exc]

\* load_state, statement by statement: an exception keeps what was assigned before it
load_state(f, h, so, cnt) ==
    IF ~Exists(f) THEN LoadResult(h, so, cnt, "")
    ELSE IF f.kind \in {"missing", "unreadable"} THEN LoadResult(h, so, cnt, "OSError")
    ELSE IF f.kind = "garbage" THEN LoadResult(h, so, cnt, "JSONDecodeError")
    ELSE IF f.kind = "array" THEN LoadResult(h, so, cnt, "AttributeError")
    ELSE LET ph == ParseHistory(f.history) IN
         IF ph.status # "ok" THEN LoadResult(h, so, cnt, ph.status)
         ELSE IF ~Truthy(f.summary_output)
              THEN LoadResult(ph.value, so, ParseCount(f.summarized_count), "")
              ELSE LET ps == ParseSummaryOutput(f.summary_output) IN
                   IF ps.status # "ok" THEN LoadResult(ph.value, so, cnt, ps.status)
                   ELSE LoadResult(ph.value, ps.value,
                                   ParseCount(f.summarized_count), "")

----------------------------------------------------------------------------
(* Token counting: src/core/memory.py get_token_count *)

\* "".join(strings)
RECURSIVE Join(_)
Join(strs) == IF strs = <<>> THEN "" ELSE Head(strs) \o Join(Tail(strs))

\* [m.content for m in self.history]
RECURSIVE ContentsOf(_)
ContentsOf(h) == IF h = <<>> THEN <<>> ELSE <<Head(h).content>> \o ContentsOf(Tail(h))

\* SummaryOutput.model_dump_json(by_alias=True): the braces and the strings it holds
model_dump_json(so) ==
    LET ss == so.session_summary IN
    "{" \o Join(ss.user_profile.prefs \o ss.user_profile.constraints \o ss.key_facts
                \o ss.decisions \o ss.open_questions \o ss.todos) \o "}"

\* len(self.tokenizer.encode(text)): one token per character
EncodedLength(text) == Len(text)

get_token_count(h, so) ==
    LET text == Join(ContentsOf(h))
        summary_json == IF so # None THEN model_dump_json(so) ELSE ""
    IN  EncodedLength(text \o summary_json)

----------------------------------------------------------------------------
(* Summarization: src/core/memory.py _check_and_summarize, _run_summarization *)

\* variant: the half rounded up
mid_idx_RoundedUp(h) == (Len(h) + 1) \div 2

\* mid_idx = len(self.history) // 2
mid_idx_AtLeastOne(h) == IF Len(h) = 1 THEN 1 ELSE Len(h) \div 2

mid_idx(h) == Len(h) \div 2

\* variant: a count equal to the threshold triggers too
OverThreshold_OrEqual(curr) == curr >= token_threshold

\* the condition of _check_and_summarize
OverThreshold(curr) == curr > token_threshold

\* the state a call leaves, with what it did
Outcome(h, so, cnt, f, d, calls, llm, absorbed, save2, raised) ==
    [history |-> h, summary_output |-> so, summarized_count |-> cnt,
     file |-> f, disk_state |-> d,
     llm_calls |-> calls, llm |-> llm, absorbed |-> absorbed,
     save2 |-> save2, raised |-> raised]

\* variant: no except clause, the error of the model call propagates
SummarizationFailed_Propagates(h, so, cnt, f, d, absorbed) ==
    Outcome(h, so, cnt, f, d, 1, "error", absorbed, "none", "GenerationError")

\* variant: the failed call is made once more within the same turn
SummarizationFailed_Retries(h, so, cnt, f, d, absorbed) ==
    Outcome(h, so, cnt, f, d, 2, "error", absorbed, "none", "")

\* the except clause of _run_summarization: log and skip this turn
SummarizationFailed(h, so, cnt, f, d, absorbed) ==
    Outcome(h, so, cnt, f, d, 1, "error", absorbed, "none", "")

\* variant: to_index set to the count itself
SummarizedRange_OffByOne(count) == MessageRange(0, count)

\* the range the store writes over the model's own: 0 .. summarized_count - 1
SummarizedRange(count) == MessageRange(0, count - 1)

\* variant: history is cut one message past the absorbed half
SummaryUpdated_LosesMessage(h, so, cnt, f, d, result, s2) ==
    LET mid == mid_idx(h)
        msgs_to_process == SubSeq(h, 1, mid)
        new_count == cnt + Len(msgs_to_process)
        new_summary == [result EXCEPT !.message_range_summarized =
                                          SummarizedRange(new_count)]
        new_history == SubSeq(h, mid + 2, Len(h))
        saved == save_state(f, d, new_history, new_summary, new_count, s2)
    IN  Outcome(new_history, new_summary, new_count, saved.file, saved.disk_state,
                1, "ok", msgs_to_process, s2, "")

\* variant: the range of the model is kept
SummaryUpdated_TrustsModel(h, so, cnt, f, d, result, s2) ==
    LET mid == mid_idx(h)
        msgs_to_process == SubSeq(h, 1, mid)
        new_count == cnt + Len(msgs_to_process)
        new_history == SubSeq(h, mid + 1, Len(h))
        saved == save_state(f, d, new_history, result, new_count, s2)
    IN  Outcome(new_history, result, new_count, saved.file, saved.disk_state,
                1, "ok", msgs_to_process, s2, "")

\* variant: the state is saved before history is truncated
SummaryUpdated_SavesBeforeTruncate(h, so, cnt, f, d, result, s2) ==
    LET mid == mid_idx(h)
        msgs_to_process == SubSeq(h, 1, mid)
        new_count == cnt + Len(msgs_to_process)
        new_summary == [result EXCEPT !.message_range_summarized =
                                          SummarizedRange(new_count)]
        new_history == SubSeq(h, mid + 1, Len(h))
        saved == save_state(f, d, h, new_summary, new_count, s2)
    IN  Outcome(new_history, new_summary, new_count, saved.file, saved.disk_state,
                1, "ok", msgs_to_process, s2, "")

\* the success branch: count, range, summary, history, save; an exception of
\* save_state would be caught by the except clause around it
SummaryUpdated(h, so, cnt, f, d, result, s2) ==
    LET mid == mid_idx(h)
        msgs_to_process == SubSeq(h, 1, mid)
        new_count == cnt + Len(msgs_to_process)
        new_summary == [result EXCEPT !.message_range_summarized =
                                          SummarizedRange(new_count)]
        new_history == SubSeq(h, mid + 1, Len(h))
        saved == save_state(f, d, new_history, new_summary, new_count, s2)
    IN  Outcome(new_history, new_summary, new_count, saved.file, saved.disk_state,
                1, "ok", msgs_to_process, s2, "")

_run_summarization(h, so, cnt, f, d, llm, s2) ==
    IF mid_idx(h) = 0
    THEN Outcome(h, so, cnt, f, d, 0, "none", <<>>, "none", "")
    ELSE CASE llm.kind = "error" ->
                SummarizationFailed(h, so, cnt, f, d, SubSeq(h, 1, mid_idx(h)))
           [] llm.kind = "null" ->
                Outcome(h, so, cnt, f, d, 1, "null", SubSeq(h, 1, mid_idx(h)), "none", "")
           [] llm.kind = "ok" ->
                SummaryUpdated(h, so, cnt, f, d, llm.result, s2)

_check_and_summarize(h, so, cnt, f, d, llm, s2) ==
    IF OverThreshold(get_token_count(h, so))
    THEN _run_summarization(h, so, cnt, f, d, llm, s2)
    ELSE Outcome(h, so, cnt, f, d, 0, "none", <<>>, "none", "")

\* add_message: append, save, check; an exception of a step ends the call there
add_message(h, so, cnt, f, d, m, s1, llm, s2) ==
    LET appended == Append(h, m)
        saved == save_state(f, d, appended, so, cnt, s1)
    IN  IF saved.raised # ""
        THEN Outcome(appended, so, cnt, saved.file, saved.disk_state,
                     0, "none", <<>>, "none", saved.raised)
        ELSE _check_and_summarize(appended, so, cnt, saved.file, saved.disk_state,
                                  llm, s2)

----------------------------------------------------------------------------
(* Key whitelist and mapper: src/schema/definitions.py *)

\* str.startswith
startswith(str, prefix) ==
    Len(str) >= Len(prefix) /\ SubSeq(str, 1, Len(prefix)) = prefix

\* str.replace(old, new): every occurrence, left to right, without overlap
RECURSIVE replace(_, _, _)
replace(str, old, new) ==
    IF Len(str) < Len(old) THEN str
    ELSE IF startswith(str, old)
         THEN new \o replace(SubSeq(str, Len(old) + 1, Len(str)), old, new)
         ELSE Head(str) \o replace(Tail(str), old, new)

Whitespace == {" ", "\t", "\n"}

RECURSIVE lstrip(_)
lstrip(str) ==
    IF Len(str) > 0 /\ Head(str) \in Whitespace THEN lstrip(Tail(str)) ELSE str

RECURSIVE rstrip(_)
rstrip(str) ==
    IF Len(str) > 0 /\ SubSeq(str, Len(str), Len(str)) \in Whitespace
    THEN rstrip(SubSeq(str, 1, Len(str) - 1))
    ELSE str

\* str.strip()
strip(str) == rstrip(lstrip(str))

\* SessionSummary.model_fields.keys() and UserProfile.model_fields.keys()
SessionSummaryFields == {"user_profile", "key_facts", "decisions", "open_questions", "todos"}
UserProfileFields == {"prefs", "constraints"}

\* f"user_profile.{k}"
full_key(k) == "user_profile." \o k

\* get_allowed_keys_info()[0]: the whitelist
_ALLOWED_KEYS == SessionSummaryFields \cup {full_key(k) : k \in UserProfileFields}

\* variant: the bare field names of UserProfile are not mapped
_KEY_MAPPING_NoShortForms ==
    [k \in SessionSummaryFields \cup {full_key(u) : u \in UserProfileFields} |-> k]

\* get_allowed_keys_info()[1]: the second loop writes after the first
_KEY_MAPPING ==
    [k \in SessionSummaryFields \cup UserProfileFields
           \cup {full_key(u) : u \in UserProfileFields} |->
        IF k \in UserProfileFields THEN full_key(k) ELSE k]

SummaryPrefix == "session_summary."

\* the key an item is looked up under: strip, then the prefix handling
LookupKey(item) ==
    LET stripped == strip(item) IN
    IF startswith(stripped, SummaryPrefix)
    THEN replace(stripped, SummaryPrefix, "")
    ELSE stripped

\* the loop of validate_needed_context_keys: cleaned, in the order of v
RECURSIVE Cleaned(_)
Cleaned(v) ==
    IF v = <<>> THEN <<>>
    ELSE LET key == LookupKey(Head(v)) IN
         (IF key \in DOMAIN _KEY_MAPPING THEN <<_KEY_MAPPING[key]>> ELSE <<>>)
         \o Cleaned(Tail(v))

\* set(cleaned)
SetOf(seq) == {seq[i] : i \in 1..Len(seq)}

\* the lists list(a_set) may be: every order of its elements
ListsOf(S) ==
    {l \in [1..Cardinality(S) -> S] : \A x \in S : \E i \in 1..Cardinality(S) : l[i] = x}

\* validate_needed_context_keys: the lists it may return
validate_needed_context_keys(v) ==
    IF v = <<>> THEN {<<>>} ELSE ListsOf(SetOf(Cleaned(v)))

\* the key strings a model proposes
RawKeys ==
    {"constraints", "prefs", "key_facts", "user_profile.constraints",
     "session_summary.key_facts", "bogus_key",
     "user_profile.session_summary.prefs",
     "session_summary.user_profile.session_summary.prefs",
     " key_facts "}

RECURSIVE ListsUpTo(_, _)
ListsUpTo(S, n) ==
    IF n = 0 THEN {<<>>}
    ELSE LET shorter == ListsUpTo(S, n - 1) IN
         shorter \cup {Append(l, x) : l \in {k \in shorter : Len(k) = n - 1}, x \in S}

\* the list of the spec's example, and the bounded lists
ExampleKeys == <<"constraints", "session_summary.key_facts", "bogus_key">>
RawKeyLists == ListsUpTo(RawKeys, MaxKeys) \cup {ExampleKeys}

----------------------------------------------------------------------------
(* The store as a state machine *)

NoMessage == ChatMessage("", "")

\* how many of the writes of a call left the old file in place
StaleWrites(s1, s2) ==
    (IF s1 = "error_before_write" THEN 1 ELSE 0)
    + (IF s2 = "error_before_write" THEN 1 ELSE 0)

\* MemoryManager.__init__ leaves history empty, no summary, count 0
Fresh(h, so, cnt) == h = <<>> /\ so = None /\ cnt = 0

Observation(op, fresh, prev, m, tokens, calls, llm, absorbed, s1, s2, raised, error) ==
    [op |-> op, fresh |-> fresh, prev_llm |-> prev, msg |-> m, tokens |-> tokens,
     llm_calls |-> calls, llm |-> llm, absorbed |-> absorbed,
     save1 |-> s1, save2 |-> s2, raised |-> raised, error |-> error]

\* documents found at persist_path when the process starts
ValidSummaryDoc(range) ==
    [t |-> "object",
     session_summary |-> SessionSummary(UserProfile(<<>>, <<>>), <<"f">>),
     message_range_summarized |-> range]

ObjectDoc(hv, sv, cv) ==
    [kind |-> "object", history |-> hv, summary_output |-> sv, summarized_count |-> cv]

UserA == model_dump(ChatMessage("user", "a"))

InitFiles ==
    {NoFile, Unreadable, Garbage, ArrayDoc,
     ObjectDoc(JsonAbsent, JsonAbsent, JsonAbsent),
     ObjectDoc(JsonList(<<UserA>>), JsonNull, JsonInt(0)),
     ObjectDoc(JsonList(<<UserA>>), ValidSummaryDoc([from |-> 0, to |-> 1]), JsonInt(2)),
     ObjectDoc(JsonList(<<UserA>>),
               ValidSummaryDoc([from_index |-> 0, to_index |-> 0]), JsonInt(1)),
     ObjectDoc(JsonList(<<UserA>>), ValidSummaryDoc([from |-> 0, to |-> 1]), JsonInt(0)),
     ObjectDoc(JsonList(<<UserA>>), InvalidObject, JsonInt(2)),
     ObjectDoc(JsonList(<<UserA>>), JsonString, JsonInt(2)),
     ObjectDoc(JsonList(<<UserA, InvalidObject>>), JsonNull, JsonInt(0)),
     ObjectDoc(JsonList(<<UserA, JsonString>>), JsonNull, JsonInt(0)),
     ObjectDoc(JsonNumber, JsonNull, JsonInt(0))}

\* the values of added: no log of the calls is kept, or an empty log
NoLog == [kept |-> FALSE, msgs |-> <<>>]

EmptyLog == [kept |-> TRUE, msgs |-> <<>>]

\* the log after one more call of add_message
Logged(log, m) == IF log.kept THEN [log EXCEPT !.msgs = Append(@, m)] ELSE log

InitStore ==
    /\ history = <<>>
    /\ summary_output = None
    /\ summarized_count = 0
    /\ file \in InitFiles
    /\ disk_state = None
    /\ stale_writes = 0
    /\ validated = None
    /\ understanding = None
    /\ last = Observation("init", TRUE, "none", NoMessage, 0, 0, "none", <<>>,
                          "none", "none", "", "")

Init == InitStore /\ added = NoLog

\* a new MemoryManager on the same persist_path
Construct ==
    /\ history' = <<>>
    /\ summary_output' = None
    /\ summarized_count' = 0
    /\ UNCHANGED <<file, disk_state, stale_writes, validated, added>>
    /\ understanding' = None
    /\ last' = Observation("init", TRUE, "none", NoMessage, 0, 0, "none", <<>>,
                           "none", "none", "", "")

AddMessage(m, s1, llm, s2) ==
    /\ summarized_count + Len(history) < MaxMessages
    /\ LET r == add_message(history, summary_output, summarized_count,
                            file, disk_state, m, s1, llm, s2)
       IN  /\ history' = r.history
           /\ summary_output' = r.summary_output
           /\ summarized_count' = r.summarized_count
           /\ file' = r.file
           /\ disk_state' = r.disk_state
           /\ last' = Observation("add",
                          Fresh(history, summary_output, summarized_count),
                          last.llm, m,
                          get_token_count(Append(history, m), summary_output),
                          r.llm_calls, r.llm, r.absorbed, s1, r.save2, r.raised, "")
           /\ stale_writes + StaleWrites(s1, r.save2) <= MaxStaleWrites
           /\ stale_writes' = stale_writes + StaleWrites(s1, r.save2)
    /\ understanding' = None
    /\ added' = Logged(added, m)
    /\ UNCHANGED validated

LoadState ==
    /\ LET r == load_state(file, history, summary_output, summarized_count)
       IN  /\ history' = r.history
           /\ summary_output' = r.summary_output
           /\ summarized_count' = r.summarized_count
           /\ last' = Observation("load",
                          Fresh(history, summary_output, summarized_count),
                          "none", NoMessage, 0, 0, "none", <<>>, "none", "none",
                          r.raised, r.error)
    /\ understanding' = None
    /\ UNCHANGED <<file, disk_state, stale_writes, validated, added>>

SaveState(outcome) ==
    /\ LET r == save_state(file, disk_state, history, summary_output,
                           summarized_count, outcome)
       IN  /\ file' = r.file
           /\ disk_state' = r.disk_state
           /\ last' = Observation("save",
                          Fresh(history, summary_output, summarized_count),
                          "none", NoMessage, 0, 0, "none", <<>>, outcome, "none",
                          r.raised, "")
    /\ stale_writes + StaleWrites(outcome, "none") <= MaxStaleWrites
    /\ stale_writes' = stale_writes + StaleWrites(outcome, "none")
    /\ understanding' = None
    /\ UNCHANGED <<history, summary_output, summarized_count, validated, added>>

\* inputs a call does not consume are fixed: the model is not called unless
\* summarization runs, the second save not unless the model answered
AddMessageOf(msgs) ==
    \E m \in msgs, s1 \in SaveOutcomes :
        LET h == Append(history, m)
            runs == OverThreshold(get_token_count(h, summary_output)) /\ mid_idx(h) # 0
        IN  \E llm \in IF runs THEN LLMOutcomes ELSE {[kind |-> "null"]} :
            \E s2 \in IF runs /\ llm.kind = "ok" THEN SaveOutcomes ELSE {"ok"} :
                AddMessage(m, s1, llm, s2)

AddMessageStep == AddMessageOf(Messages)

SaveStateStep == \E outcome \in SaveOutcomes : SaveState(outcome)

Next == Construct \/ AddMessageStep \/ LoadState \/ SaveStateStep

Spec == Init /\ [][Next]_vars

\* a session that only receives messages
SpecAdd == Init /\ [][AddMessageStep]_vars

\* a session started fresh that only receives messages, each call logged
InitLog == InitStore /\ file = NoFile /\ added = EmptyLog

SpecLog == InitLog /\ [][AddMessageStep]_vars

----------------------------------------------------------------------------
(* Query understanding: src/core/memory.py get_context, src/core/pipeline.py *)

\* "\n".join(lines)
RECURSIVE JoinLines(_)
JoinLines(lines) ==
    IF lines = <<>> THEN ""
    ELSE IF Len(lines) = 1 THEN Head(lines)
    ELSE Head(lines) \o "\n" \o JoinLines(Tail(lines))

\* [f"{m.role}: {m.content}" for m in self.history]
RECURSIVE RoleLines(_)
RoleLines(h) ==
    IF h = <<>> THEN <<>>
    ELSE <<Head(h).role \o ": " \o Head(h).content>> \o RoleLines(Tail(h))

get_context(h, so) ==
    (IF so # None
     THEN "SUMMARY_OUTPUT (JSON):\n" \o model_dump_json(so) \o "\n"
     ELSE "")
    \o "\nRECENT MESSAGES:\n" \o JoinLines(RoleLines(h))

\* the length the default result cuts the context to
ContextTailLength == 1000

ContextTail_Head(context_str) ==
    IF Len(context_str) <= ContextTailLength THEN context_str
    ELSE SubSeq(context_str, 1, ContextTailLength)

\* context_str[-1000:]
ContextTail(context_str) ==
    IF Len(context_str) <= ContextTailLength THEN context_str
    ELSE SubSeq(context_str, Len(context_str) - ContextTailLength + 1, Len(context_str))

QueryUnderstandingOutput(original, ambiguous, rewritten, keys, questions, context) ==
    [original_query |-> original, is_ambiguous |-> ambiguous,
     rewritten_query |-> rewritten, needed_context_from_memory |-> keys,
     clarifying_questions |-> questions, final_augmented_context |-> context]

\* the result built in the except clause of process_query
DefaultResult(user_query, context_str) ==
    QueryUnderstandingOutput(user_query, FALSE, user_query, <<>>, <<>>,
                             ContextTail(context_str))

\* the queries a caller asks
Queries == {"and that one"}

\* the key lists the model proposes in an answer to a query
ProposedKeyLists == {ExampleKeys, <<"prefs", "user_profile.prefs">>}

\* outcomes of chain.invoke in process_query: an answer that fits the schema,
\* None, or an exception (the transport fails, the schema rejects the answer)
QueryLLMOutcomes ==
    {[kind |-> "ok", keys |-> k] : k \in ProposedKeyLists}
    \cup {[kind |-> "null"], [kind |-> "error"]}

\* the answer of the model as the structured parser builds it: the validator
\* has run on its key list; keys is the list the validator returned
ParsedAnswer(user_query, keys) ==
    QueryUnderstandingOutput(user_query, TRUE, "rewritten " \o user_query, keys,
                             <<"which one">>, "augmented")

ValidatedKeysOf_Unvalidated(llm) ==
    IF llm.kind = "ok" THEN {llm.keys} ELSE {<<>>}

\* the lists the validator may return for the keys of an outcome
ValidatedKeysOf(llm) ==
    IF llm.kind = "ok" THEN validate_needed_context_keys(llm.keys) ELSE {<<>>}

\* process_query: the result of the model, or the default when anything in
\* the try block raises (a None result raises at the logging line)
process_query(h, so, user_query, llm, keys) ==
    LET context_str == get_context(h, so) IN
    IF llm.kind = "ok"
    THEN ParsedAnswer(user_query, keys)
    ELSE DefaultResult(user_query, context_str)

MemoryAfterQuery_RecordsQuery(h, so, cnt, user_query) ==
    MemoryState(Append(h, ChatMessage("user", user_query)), so, cnt)

\* process_query reads the store through get_context only: the state it leaves
MemoryAfterQuery(h, so, cnt, user_query) == MemoryState(h, so, cnt)

ProcessQuery(user_query, llm, keys) ==
    /\ LET after == MemoryAfterQuery(history, summary_output, summarized_count,
                                     user_query)
       IN  /\ history' = after.history
           /\ summary_output' = after.summary_output
           /\ summarized_count' = after.summarized_count
    /\ understanding' =
          [query |-> user_query,
           context |-> get_context(history, summary_output),
           llm |-> llm.kind,
           raw |-> IF llm.kind = "ok" THEN llm.keys ELSE <<>>,
           raised |-> "",
           result |-> process_query(history, summary_output, user_query, llm, keys)]
    /\ last' = Observation("query",
                   Fresh(history, summary_output, summarized_count),
                   "none", NoMessage, 0, 0, "none", <<>>, "none", "none", "", "")
    /\ UNCHANGED <<file, disk_state, stale_writes, validated, added>>

ProcessQueryStep ==
    \E user_query \in Queries, llm \in QueryLLMOutcomes :
        \E keys \in ValidatedKeysOf(llm) : ProcessQuery(user_query, llm, keys)

\* a content long enough for the context to exceed the tail of the default result
LongContentLength == 1000

RECURSIVE Repeat(_, _)
Repeat(str, n) ==
    IF n = 0 THEN ""
    ELSE IF n % 2 = 0 THEN LET half == Repeat(str, n \div 2) IN half \o half
    ELSE str \o Repeat(str, n - 1)

\* what a caller may pass to add_message: role and content are any strings
AnyMessages ==
    {ChatMessage("user", "a"), ChatMessage("tool", Repeat("x", LongContentLength))}

\* a session: messages of any role and length are added, queries are asked
InitSession == Init /\ file = NoFile

NextSession == AddMessageOf(AnyMessages) \/ ProcessQueryStep

SpecSession == InitSession /\ [][NextSession]_vars

----------------------------------------------------------------------------
(* The validator on its own *)

\* QueryUnderstandingOutput is built from a raw key list: the validator runs
ValidateKeys(raw) ==
    /\ \E keys \in validate_needed_context_keys(raw) :
          validated' = [raw |-> raw, keys |-> keys]
    /\ UNCHANGED <<history, summary_output, summarized_count, file, disk_state,
                   stale_writes, understanding, added, last>>

ValidateKeysStep == \E raw \in RawKeyLists : ValidateKeys(raw)

InitKeys == Init /\ file = NoFile

SpecKeys == InitKeys /\ [][ValidateKeysStep]_vars

----------------------------------------------------------------------------
(* Properties of add_message *)

\* the history add_message checks: the old one with the message of the call
Appended == Append(history, last'.msg)

\* C1: in a session that only receives messages, summarized_count never
\* decreases from one state to the next, and whenever a summary is present
\* summarized_count = message_range_summarized.to_index + 1.
C1_CountMonotoneAndMatchesRange ==
    /\ [][summarized_count' >= summarized_count]_vars
    /\ [](summary_output # None =>
            summarized_count = summary_output.message_range_summarized.to_index + 1)

\* a second successful summarization has raised the count again
C1_Witness ==
    /\ last.op = "add" /\ last.llm = "ok"
    /\ summary_output # None
    /\ summarized_count >= 2

\* C2: when the token count after the append exceeds the threshold and history
\* holds n >= 2 messages, one summarization over the first n \div 2 messages is
\* attempted; if it succeeds, history is the last n - n \div 2 messages of the
\* history before it, in order.
C2_FirstHalfAbsorbed ==
    [][(last'.op = "add" /\ last'.tokens > token_threshold /\ Len(Appended) >= 2)
        => LET n == Len(Appended) IN
           /\ last'.llm_calls = 1
           /\ last'.absorbed = SubSeq(Appended, 1, n \div 2)
           /\ (last'.llm = "ok" =>
                 /\ history' = SubSeq(Appended, n \div 2 + 1, n)
                 /\ Len(history') = n - n \div 2)]_vars

\* a successful summarization of a history of three messages: one absorbed, two kept
C2_Witness ==
    /\ last.op = "add" /\ last.llm = "ok" /\ last.tokens > token_threshold
    /\ Len(last.absorbed) = 1
    /\ Len(history) = 2

\* C3: when the token count after the append is at most the threshold (equal
\* included), no summarization call is made, history is the old history with
\* the new message at its end, and summary_output and summarized_count are
\* unchanged.
C3_BelowThresholdOnlyAppends ==
    [][(last'.op = "add" /\ last'.tokens <= token_threshold)
        => /\ last'.llm_calls = 0
           /\ history' = Appended
           /\ summary_output' = summary_output
           /\ summarized_count' = summarized_count]_vars

\* a call whose count is exactly the threshold, on a history long enough to split
C3_Witness ==
    /\ last.op = "add"
    /\ last.tokens = token_threshold
    /\ last.llm_calls = 0
    /\ Len(history) >= 2

\* C4: when the summarization model call fails, add_message raises nothing and
\* leaves the state of right after the append: history, summary_output and
\* summarized_count are untouched by the failed attempt.
C4_FailedSummarizationKeepsState ==
    [][(last'.op = "add" /\ last'.llm = "error")
        => /\ last'.raised = ""
           /\ history' = Appended
           /\ summary_output' = summary_output
           /\ summarized_count' = summarized_count]_vars

\* a failed attempt on a store that already holds a summary
C4_Witness ==
    /\ last.op = "add" /\ last.llm = "error" /\ last.llm_calls = 1
    /\ summary_output # None

\* C5: a call of add_message makes at most one summarization attempt, and after
\* a call whose attempt failed the next add_message whose token count exceeds
\* the threshold makes a new attempt, over the first half of the history it
\* then holds.
C5_OneAttemptPerCallRetryOnNext ==
    /\ [](last.llm_calls <= 1)
    /\ [][(last.op = "add" /\ last.llm = "error"
           /\ last'.op = "add" /\ last'.tokens > token_threshold)
          => /\ last'.llm_calls = 1
             /\ last'.absorbed = SubSeq(Appended, 1, Len(Appended) \div 2)]_vars

\* the call after a failed attempt attempts again, on a longer first half
C5_Witness ==
    /\ last.op = "add" /\ last.prev_llm = "error"
    /\ last.llm_calls = 1
    /\ Len(last.absorbed) = 2

\* C6: when a persistence write fails during add_message (the write after the
\* append or the write after a successful summarization), nothing is raised,
\* the mutation that triggered the write is kept, and after a failed first
\* write the threshold check and the summarization still run.
C6_WriteFailureKeepsMemory ==
    [][(last'.op = "add" /\ (last'.save1 # "ok" \/ last'.save2 \notin {"ok", "none"}))
        => LET n == Len(Appended) IN
           /\ last'.raised = ""
           /\ (last'.save1 # "ok" /\ last'.tokens > token_threshold /\ n >= 2
                 => last'.llm_calls = 1)
           /\ (last'.llm # "ok" =>
                 /\ history' = Appended
                 /\ summary_output' = summary_output
                 /\ summarized_count' = summarized_count)
           /\ (last'.llm = "ok" =>
                 /\ history' = SubSeq(Appended, n \div 2 + 1, n)
                 /\ summary_output' # None
                 /\ summarized_count' = summarized_count + n \div 2)]_vars

\* both writes of one call failed and the summary is in memory all the same
C6_Witness ==
    /\ last.op = "add"
    /\ last.save1 # "ok" /\ last.save2 \notin {"ok", "none"}
    /\ last.llm = "ok"
    /\ summary_output # None

----------------------------------------------------------------------------
(* Properties of save_state and load_state *)

\* the MemoryState invariant of the data model
ValidMemoryState(x) ==
    IF x.summary_output = None
    THEN x.summarized_count = 0
    ELSE x.summarized_count =
            x.summary_output.message_range_summarized.to_index + 1

\* C7: for every valid MemoryState x, a successful save_state of x followed by
\* load_state into a freshly constructed store on the same path yields history,
\* summary_output and summarized_count equal to those of x, the range being
\* stored under its wire names from and to.
C7_SaveLoadRoundTrip ==
    (/\ last.op = "load" /\ last.fresh
     /\ disk_state # None
     /\ ValidMemoryState(disk_state))
    => /\ MemoryState(history, summary_output, summarized_count) = disk_state
       /\ disk_state.summary_output # None =>
            file.summary_output.message_range_summarized =
                [from |-> disk_state.summary_output.message_range_summarized.from_index,
                 to |-> disk_state.summary_output.message_range_summarized.to_index]

\* a saved state with a summary and messages has been loaded into a new store
C7_Witness ==
    /\ last.op = "load" /\ last.fresh
    /\ disk_state # None
    /\ ValidMemoryState(disk_state)
    /\ disk_state.summary_output # None
    /\ Len(disk_state.history) >= 2
    /\ summary_output # None

\* C8: load_state on a freshly constructed store whose persistence path does
\* not exist raises nothing and leaves history empty, summary_output absent and
\* summarized_count 0.
C8_MissingFileStartsFresh ==
    (last.op = "load" /\ last.fresh /\ file = NoFile)
    => /\ last.raised = ""
       /\ last.error = ""
       /\ Fresh(history, summary_output, summarized_count)

\* load_state has returned on a path that holds nothing
C8_Witness ==
    /\ last.op = "load" /\ last.fresh
    /\ file = NoFile
    /\ last.raised = ""

\* C9: load_state never raises to its caller, whatever the persistence file
\* holds and however reading it fails.
C9_LoadNeverRaises ==
    last.op = "load" => last.raised = ""

\* C10: when load_state on a freshly constructed store rejects the document as
\* corrupt or as failing the schema in any part, the session starts empty:
\* history empty, summary_output absent, summarized_count 0.  Stated for the
\* calls that return, so that it does not rest on C9.
C10_RejectedDocumentStartsEmpty ==
    (last.op = "load" /\ last.fresh /\ last.error # "" /\ last.raised = "")
    => Fresh(history, summary_output, summarized_count)

----------------------------------------------------------------------------
(* Properties of the key whitelist and mapper *)

\* the whitelist as the design states it
WhitelistKeys ==
    {"user_profile", "key_facts", "decisions", "open_questions", "todos",
     "user_profile.prefs", "user_profile.constraints"}

NoDuplicates(seq) == \A i, j \in 1..Len(seq) : seq[i] = seq[j] => i = j

\* C13: normalize maps every raw key list to a duplicate-free collection of
\* whitelist keys: a raw key that is a whitelist key maps to itself, the bare
\* names prefs and constraints map to user_profile.prefs and
\* user_profile.constraints, unknown keys are dropped, and the list
\* <<constraints, session_summary.key_facts, bogus_key>> gives
\* {user_profile.constraints, key_facts}.
C13_NormalizeMapsToWhitelist ==
    validated # None =>
        LET raw == SetOf(validated.raw)
            keys == SetOf(validated.keys)
        IN  /\ keys \subseteq WhitelistKeys
            /\ NoDuplicates(validated.keys)
            /\ raw \cap WhitelistKeys \subseteq keys
            /\ "prefs" \in raw => "user_profile.prefs" \in keys
            /\ "constraints" \in raw => "user_profile.constraints" \in keys
            /\ "bogus_key" \notin keys
            /\ validated.raw = ExampleKeys =>
                 keys = {"user_profile.constraints", "key_facts"}

\* the validator has run on the list of the example
C13_Witness ==
    /\ validated # None
    /\ validated.raw = ExampleKeys
    /\ Len(validated.keys) = 2

\* a raw key without its leading session_summary. prefix, nothing else changed
WithoutLeadingPrefix(key) ==
    IF startswith(key, SummaryPrefix)
    THEN SubSeq(key, Len(SummaryPrefix) + 1, Len(key))
    ELSE key

\* C15: normalize decides a raw key by removing one leading session_summary.
\* prefix, if present, and looking up exactly the remaining string: a key that
\* is in the table only after removing an occurrence that is not at the start
\* contributes nothing.  Stated for the raw keys without surrounding blanks.
C15_OnlyLeadingPrefixRemoved ==
    (validated # None /\ \A i \in 1..Len(validated.raw) :
                            strip(validated.raw[i]) = validated.raw[i])
    => SetOf(validated.keys) =
          {_KEY_MAPPING[WithoutLeadingPrefix(r)] :
              r \in {x \in SetOf(validated.raw) :
                        WithoutLeadingPrefix(x) \in DOMAIN _KEY_MAPPING}}

\* C11: when the structured call of process_query fails (an exception, or no
\* result), process_query raises nothing and returns the default result:
\* not ambiguous, the query unchanged, no keys, no questions, and the last
\* 1000 characters of the context (all of it when it is shorter).
C11_FailedCallReturnsDefault ==
    (understanding # None /\ understanding.llm # "ok") =>
        LET r == understanding.result
            ctx == understanding.context
            n == Len(ctx)
            k == IF n < ContextTailLength THEN n ELSE ContextTailLength
        IN  /\ understanding.raised = ""
            /\ ctx = get_context(history, summary_output)
            /\ r.original_query = understanding.query
            /\ r.is_ambiguous = FALSE
            /\ r.rewritten_query = understanding.query
            /\ r.needed_context_from_memory = <<>>
            /\ r.clarifying_questions = <<>>
            /\ Len(r.final_augmented_context) = k
            /\ r.final_augmented_context = SubSeq(ctx, n - k + 1, n)

C11_Witness ==
    /\ understanding # None
    /\ understanding.llm = "error"
    /\ summary_output # None
    /\ Len(understanding.context) > ContextTailLength
    /\ Len(understanding.result.final_augmented_context) = ContextTailLength

\* C12: every result of process_query, whether the model answered or the
\* default was returned, lists only whitelist keys and lists none twice.
C12_ResultKeysInWhitelist ==
    understanding # None =>
        LET keys == understanding.result.needed_context_from_memory
        IN  /\ \A i \in 1..Len(keys) : keys[i] \in WhitelistKeys
            /\ NoDuplicates(keys)

C12_Witness ==
    /\ understanding # None
    /\ understanding.llm = "ok"
    /\ understanding.raw = ExampleKeys
    /\ Len(understanding.result.needed_context_from_memory) = 2

\* C14: process_query leaves history, summary_output, summarized_count and
\* the persisted document as they were, whether the model call succeeds or fails.
C14_QueryLeavesMemoryUnchanged ==
    [][last'.op = "query" =>
          /\ history' = history
          /\ summary_output' = summary_output
          /\ summarized_count' = summarized_count
          /\ file' = file]_vars

C14_Witness ==
    /\ last.op = "query"
    /\ understanding # None
    /\ understanding.llm = "ok"
    /\ history # <<>>
    /\ summary_output # None
    /\ file # NoFile

C17_SingleMessageNoSummarization ==
    [][(/\ last'.op = "add"
        /\ last'.tokens > token_threshold
        /\ Len(Appended) < 2) =>
          /\ last'.llm_calls = 0
          /\ last'.llm = "none"
          /\ last'.raised = ""
          /\ history' = Appended
          /\ summary_output' = summary_output
          /\ summarized_count' = summarized_count]_vars

\* a single message that alone exceeds the threshold has been added
C17_Witness ==
    /\ last.op = "add"
    /\ last.tokens > token_threshold
    /\ Len(history) = 1
    /\ last.llm_calls = 0
    /\ last.save1 = "ok"

\* C18: when add_message returns and every write in it succeeded, the
\* persisted document holds the MemoryState in memory, whether no
\* summarization ran, it failed, or it succeeded and truncated history.
C18_SavedStateEqualsMemory ==
    (/\ last.op = "add"
     /\ last.save1 = "ok"
     /\ last.save2 \in {"ok", "none"}) =>
        /\ disk_state = MemoryState(history, summary_output, summarized_count)
        /\ file = StateDocument(history, summary_output, summarized_count)

\* a summarization has truncated history and both writes succeeded
C18_Witness ==
    /\ last.op = "add"
    /\ last.llm = "ok"
    /\ last.save1 = "ok"
    /\ last.save2 = "ok"
    /\ Len(last.absorbed) >= 1
    /\ disk_state # None
    /\ disk_state.history = history

\* C19: after load_state has accepted a persisted document, the MemoryState
\* invariant holds: summarized_count is to_index + 1 of the stored range when
\* summary_output is present, and 0 when it is absent.
C19_LoadedStateIsValid ==
    (last.op = "load" /\ last.fresh /\ last.raised = "" /\ last.error = "")
    => ValidMemoryState(MemoryState(history, summary_output, summarized_count))

\* the roles the design gives a message
DesignRoles == {"user", "assistant", "system"}

\* C20: every message held in history has a role among user, assistant and
\* system.
C20_HistoryRolesInEnum ==
    \A i \in 1..Len(history) : history[i].role \in DesignRoles

\* C21: in a session started fresh, after k calls of add_message with any mix
\* of succeeding and failing summarizations, summarized_count + len(history)
\* is k and history is the last len(history) messages added, in the order
\* they were added: summarized_count counts the messages dropped from the front.
C21_NoMessageLostOrReordered ==
    added.kept =>
        LET k == Len(added.msgs) IN
        /\ summarized_count + Len(history) = k
        /\ \A i \in 1..Len(history) : history[i] = added.msgs[summarized_count + i]
        /\ history = SubSeq(added.msgs, k - Len(history) + 1, k)

\* all the messages the bound allows have been added, one summarization has
\* dropped messages from the front and the last one failed
C21_Witness ==
    /\ added.kept
    /\ Len(added.msgs) = MaxMessages
    /\ summarized_count >= 1
    /\ Len(history) >= 2
    /\ last.op = "add" /\ last.llm = "error"
    /\ \E i, j \in 1..Len(added.msgs) : added.msgs[i] # added.msgs[j]

====
